---- MODULE Spec2Model ----
(***************************************************************************)
(* Model of the user-profile notebook (3_users_profil.ipynb): the routine  *)
(* compute_stats_by_user, which folds the track events of one customer     *)
(* into six counters, and the Spark pipeline that feeds it                 *)
(* (make_tracks_kv, reduceByKey, mapValues, colStats, collect).            *)
(*                                                                         *)
(* Python strings are sequences of one-character strings, so that          *)
(* str.split and int() are computed, not assumed.                          *)
(***************************************************************************)
EXTENDS Integers, Sequences, FiniteSets, TLC

VARIABLES frame,      \* activation record of one call of compute_stats_by_user
          file,       \* lines of ./raw/tracks.csv
          job,        \* what the notebook is running: a Spark job or a writer
          stage,      \* stage of the running Spark job
          partials,   \* the pair RDD: [key, list] pairs in partition order
          values,     \* per pair, the outcome of its mapValues task
          stats,      \* aggregate_data, the result of colStats
          collected,  \* the list customer_data.collect() returned
          live_table, \* rows written to live_table.csv
          agg_table,  \* rows written to agg_table.csv
          errors,     \* exceptions that reached the notebook
          text_file,  \* lines of raw/example.txt
          raw,        \* os.listdir("./raw")
          cell,       \* position in the word-count cell of 1_examples.ipynb
          counts,     \* the pair RDD counts: (word, n) pairs in partition order
          word_count, \* what saveAsTextFile wrote to raw/word_count
          runs,       \* how many times the word-count cell was started
          ebay_text,  \* lines of ./raw/ebay.csv
          ebay_df,    \* the rows of the DataFrame ebay_df
          ebay_cell,  \* position in the cells of 2_ebay_dataset.ipynb
          done,       \* rows the running query has aggregated
          buffer,     \* aggregation buffer of the running query
          grouped,    \* rows of ebay_df.groupBy('auctionid', 'item').count()
          results     \* rows of the SQL query results

vars == <<frame, file, job, stage, partials, values, stats, collected,
          live_table, agg_table, errors,
          text_file, raw, cell, counts, word_count, runs,
          ebay_text, ebay_df, ebay_cell, done, buffer, grouped, results>>

wcVars == <<text_file, raw, cell, counts, word_count, runs>>

ebayVars == <<ebay_text, ebay_df, ebay_cell, done, buffer, grouped, results>>

----------------------------------------------------------------------------
(* Bounds of the model.                                                    *)

\* longest group handed to compute_stats_by_user (small record alphabet)
MaxLen == 3
\* longest group over the all-hours record alphabet
MaxLenHours == 2

----------------------------------------------------------------------------
(* Python strings.                                                         *)

DigitChars == <<"0", "1", "2", "3", "4", "5", "6", "7", "8", "9">>

IsDigit(c) == \E k \in 1..10 : DigitChars[k] = c

DigitVal(c) == (CHOOSE k \in 1..10 : DigitChars[k] = c) - 1

\* str.split(sep) for a one-character separator: every occurrence splits,
\* the result has one more element than there are separators.
RECURSIVE SplitAcc(_, _, _, _, _)
SplitAcc(s, sep, k, cur, out) ==
    IF k > Len(s) THEN Append(out, cur)
    ELSE IF s[k] = sep THEN SplitAcc(s, sep, k + 1, <<>>, Append(out, cur))
    ELSE SplitAcc(s, sep, k + 1, Append(cur, s[k]), out)

Split(s, sep) == SplitAcc(s, sep, 1, <<>>, <<>>)

\* value of a non-empty string of decimal digits
RECURSIVE DigitsVal(_)
DigitsVal(s) ==
    IF s = <<>> THEN 0
    ELSE 10 * DigitsVal(SubSeq(s, 1, Len(s) - 1)) + DigitVal(s[Len(s)])

AllDigits(s) == Len(s) > 0 /\ \A k \in 1..Len(s) : IsDigit(s[k])

\* s without its leading and trailing blanks
RECURSIVE Strip(_)
Strip(s) ==
    IF Len(s) > 0 /\ s[1] = " " THEN Strip(Tail(s))
    ELSE IF Len(s) > 0 /\ s[Len(s)] = " " THEN Strip(SubSeq(s, 1, Len(s) - 1))
    ELSE s

\* int(s): blanks around it aside, an optional sign followed by decimal
\* digits; anything else raises ValueError (ok = FALSE).
ParseInt(str) ==
    LET s == Strip(str)
    IN  IF Len(s) > 0 /\ s[1] \in {"-", "+"}
        THEN LET body == SubSeq(s, 2, Len(s))
             IN  IF AllDigits(body)
                 THEN [ok |-> TRUE,
                       val |-> IF s[1] = "-" THEN 0 - DigitsVal(body)
                                             ELSE DigitsVal(body)]
                 ELSE [ok |-> FALSE, val |-> 0]
        ELSE IF AllDigits(s) THEN [ok |-> TRUE, val |-> DigitsVal(s)]
        ELSE [ok |-> FALSE, val |-> 0]

----------------------------------------------------------------------------
(* Values a call can end with.                                             *)

Pending == [kind |-> "pending", val |-> <<>>]
NoneValue == [kind |-> "None", val |-> <<>>]
ValueError == [kind |-> "ValueError", val |-> <<>>]
ListValue(l) == [kind |-> "list", val |-> l]

----------------------------------------------------------------------------
(* compute_stats_by_user, statement by statement.  A frame holds the       *)
(* argument, the locals, the position in the body and the outcome.         *)

InitFrame(tracks) ==
    [tracks |-> tracks, i |-> 0, pc |-> "for",
     mcount |-> 0, morning |-> 0, afternoon |-> 0, evening |-> 0, night |-> 0,
     tracklist |-> <<>>, hour_of_day |-> 0, ret |-> Pending]

\* for t in tracks: the next element, or the end of the function body,
\* where a Python function without a return statement yields None
StepFor(f) ==
    IF f.i < Len(f.tracks)
    THEN [f EXCEPT !.i = f.i + 1, !.pc = "unpack"]
    ELSE [f EXCEPT !.pc = "returned", !.ret = NoneValue]

\* trackid, dtime, mobile, zip = t; if trackid not in tracklist: append
StepUnpack(f) ==
    LET trackid == f.tracks[f.i][1]
    IN  [f EXCEPT !.tracklist =
                      IF \E k \in 1..Len(f.tracklist) : f.tracklist[k] = trackid
                      THEN f.tracklist
                      ELSE Append(f.tracklist, trackid),
                  !.pc = "parse"]

\* d,t = dtime.split(" "); hour_of_day = int(t.split(":")[0])
HourOfDay(dtime) ==
    LET parts == Split(dtime, " ")
    IN  IF Len(parts) # 2 THEN [ok |-> FALSE, val |-> 0]
        ELSE ParseInt(Split(parts[2], ":")[1])

StepParse(f) ==
    LET h == HourOfDay(f.tracks[f.i][2])
    IN  IF h.ok
        THEN [f EXCEPT !.hour_of_day = h.val, !.pc = "mobile"]
        ELSE [f EXCEPT !.pc = "raised", !.ret = ValueError]

\* counting the flag and clearing it in the record it was read from
StepMobileClearsFlag(f) ==
    [f EXCEPT !.mcount = f.mcount + f.tracks[f.i][3],
              !.tracks[f.i][3] = 0,
              !.pc = "classify"]

\* mcount += mobile
StepMobile(f) ==
    [f EXCEPT !.mcount = f.mcount + f.tracks[f.i][3], !.pc = "classify"]

\* the chain behind a range check: an hour outside 0..23 raises ValueError
StepClassifyRejects(f) ==
    LET h == f.hour_of_day
    IN  IF h < 0 \/ h > 23 THEN [f EXCEPT !.pc = "raised", !.ret = ValueError]
        ELSE IF h < 5 THEN [f EXCEPT !.night = f.night + 1, !.pc = "return"]
        ELSE IF h < 12 THEN [f EXCEPT !.morning = f.morning + 1, !.pc = "return"]
        ELSE IF h < 17 THEN [f EXCEPT !.afternoon = f.afternoon + 1, !.pc = "return"]
        ELSE IF h < 22 THEN [f EXCEPT !.evening = f.evening + 1, !.pc = "return"]
        ELSE [f EXCEPT !.night = f.night + 1, !.pc = "return"]

\* the chain without its else branch: hours from 22 on are not counted
StepClassifyNoElse(f) ==
    LET h == f.hour_of_day
    IN  IF h < 5 THEN [f EXCEPT !.night = f.night + 1, !.pc = "return"]
        ELSE IF h < 12 THEN [f EXCEPT !.morning = f.morning + 1, !.pc = "return"]
        ELSE IF h < 17 THEN [f EXCEPT !.afternoon = f.afternoon + 1, !.pc = "return"]
        ELSE IF h < 22 THEN [f EXCEPT !.evening = f.evening + 1, !.pc = "return"]
        ELSE [f EXCEPT !.pc = "return"]

\* the chain with its first test written <= 5: hour 5 counted as night
StepClassifyOffByOne(f) ==
    LET h == f.hour_of_day
    IN  IF h <= 5 THEN [f EXCEPT !.night = f.night + 1, !.pc = "return"]
        ELSE IF h < 12 THEN [f EXCEPT !.morning = f.morning + 1, !.pc = "return"]
        ELSE IF h < 17 THEN [f EXCEPT !.afternoon = f.afternoon + 1, !.pc = "return"]
        ELSE IF h < 22 THEN [f EXCEPT !.evening = f.evening + 1, !.pc = "return"]
        ELSE [f EXCEPT !.night = f.night + 1, !.pc = "return"]

\* the if/elif chain over hour_of_day
StepClassify(f) ==
    LET h == f.hour_of_day
    IN  IF h < 5 THEN [f EXCEPT !.night = f.night + 1, !.pc = "return"]
        ELSE IF h < 12 THEN [f EXCEPT !.morning = f.morning + 1, !.pc = "return"]
        ELSE IF h < 17 THEN [f EXCEPT !.afternoon = f.afternoon + 1, !.pc = "return"]
        ELSE IF h < 22 THEN [f EXCEPT !.evening = f.evening + 1, !.pc = "return"]
        ELSE [f EXCEPT !.night = f.night + 1, !.pc = "return"]

\* the return statement one level out: taken once the loop is through
StepReturnAfterLoop(f) ==
    IF f.i < Len(f.tracks)
    THEN [f EXCEPT !.pc = "for"]
    ELSE [f EXCEPT !.pc = "returned",
                   !.ret = ListValue(<<Len(f.tracklist), f.morning, f.afternoon,
                                       f.evening, f.night, f.mcount>>)]

\* return [len(tracklist), morning, afternoon, evening, night, mcount],
\* indented as the last statement of the loop body
StepReturn(f) ==
    [f EXCEPT !.pc = "returned",
              !.ret = ListValue(<<Len(f.tracklist), f.morning, f.afternoon,
                                  f.evening, f.night, f.mcount>>)]

Terminal(f) == f.pc \in {"returned", "raised"}

Step(f) ==
    CASE f.pc = "for" -> StepFor(f)
      [] f.pc = "unpack" -> StepUnpack(f)
      [] f.pc = "parse" -> StepParse(f)
      [] f.pc = "mobile" -> StepMobile(f)
      [] f.pc = "classify" -> StepClassify(f)
      [] f.pc = "return" -> StepReturn(f)
      [] OTHER -> f

RECURSIVE Run(_)
Run(f) == IF Terminal(f) THEN f ELSE Run(Step(f))

\* the value (or exception) of the call compute_stats_by_user(tracks)
compute_stats_by_user(tracks) == Run(InitFrame(tracks)).ret

----------------------------------------------------------------------------
(* Inputs: track events [trackid, dtime, mobile, zip] as make_tracks_kv    *)
(* builds them, dtime in the form "YYYY-MM-DD HH:MM:SS".                   *)

Date == <<"2", "0", "1", "4", "-", "0", "1", "-", "0", "1">>

TwoDigits(n) == <<DigitChars[(n \div 10) + 1], DigitChars[(n % 10) + 1]>>

\* "2014-01-01 HH:MM:00"
Timestamp(hh, mm) ==
    Date \o <<" ">> \o TwoDigits(hh) \o <<":">> \o TwoDigits(mm) \o <<":", "0", "0">>

\* "2014-01-01 xx:00:00": the hour is no number
BadHourStamp == Date \o <<" ", "x", "x", ":", "0", "0", ":", "0", "0">>

\* "2014-01-01T03:00:00": no space between date and time
NoSpaceStamp == Date \o <<"T", "0", "3", ":", "0", "0", ":", "0", "0">>

Zip1 == <<"0", "0", "0", "0", "1">>
Zip2 == <<"0", "0", "0", "0", "2">>
Zip3 == <<"0", "0", "0", "0", "3">>

TrackIds == {1, 2}
Flags == {0, 1}
Stamps == {Timestamp(3, 0), Timestamp(9, 0), Timestamp(23, 30), BadHourStamp}

\* small alphabet: two track ids, three buckets, both flags
Records == {<<id, ts, m, Zip1>> : id \in TrackIds, ts \in Stamps, m \in Flags}

\* every hour of the day, and a stamp that does not split in two
HourStamps == {Timestamp(h, 0) : h \in 0..23} \cup {NoSpaceStamp}
HourRecords == {<<1, ts, 1, Zip2>> : ts \in HourStamps}

SeqUpTo(S, n) == UNION {[1..k -> S] : k \in 0..n}

\* the example group of the specification
ExampleGroup ==
    << <<1, Timestamp(3, 0), 0, Zip1>>,
       <<1, Timestamp(9, 0), 1, Zip2>>,
       <<2, Timestamp(23, 30), 1, Zip3>> >>

\* hours that int() yields but that are no hour of the day: -1, 24, 99, -30
OutOfDayStamps ==
    {Date \o <<" ">> \o hh \o <<":", "0", "0", ":", "0", "0">> :
        hh \in {<<"-", "1">>, <<"2", "4">>, <<"9", "9">>, <<"-", "3", "0">>}}

OutOfDayRecords == {<<1, ts, 1, Zip1>> : ts \in OutOfDayStamps}

\* device flags that int(line[4]) yields but that are no flag: -1 and 2
FlagRecords == {<<1, Timestamp(3, 0), m, Zip1>> : m \in {0 - 1, 1, 2}}

Groups == SeqUpTo(Records, MaxLen) \cup SeqUpTo(HourRecords, MaxLenHours)
              \cup SeqUpTo(FlagRecords, MaxLenHours)
              \cup SeqUpTo(OutOfDayRecords, MaxLenHours) \cup {ExampleGroup}

----------------------------------------------------------------------------
(* One call of compute_stats_by_user on a group, run statement by          *)
(* statement.                                                              *)

PipelineIdle ==
    /\ file = <<>>
    /\ job = "none"
    /\ stage = "none"
    /\ partials = <<>>
    /\ values = <<>>
    /\ stats = <<>>
    /\ collected = <<>>
    /\ live_table = <<>>
    /\ agg_table = <<>>
    /\ errors = <<>>

pipeVars == <<file, job, stage, partials, values, stats, collected,
              live_table, agg_table, errors>>

\* the word-count cell has not been run
WordCountIdle ==
    /\ text_file = <<>>
    /\ raw = {}
    /\ cell = "none"
    /\ counts = <<>>
    /\ word_count = <<>>
    /\ runs = 0

\* the cells of the eBay notebook have not been run
EbayIdle ==
    /\ ebay_text = <<>>
    /\ ebay_df = <<>>
    /\ ebay_cell = "none"
    /\ done = {}
    /\ buffer = {}
    /\ grouped = {}
    /\ results = {}

Init ==
    /\ frame \in {InitFrame(g) : g \in Groups}
    /\ PipelineIdle
    /\ WordCountIdle
    /\ EbayIdle

ForNext ==
    /\ frame.pc = "for"
    /\ frame.i < Len(frame.tracks)
    /\ frame' = StepFor(frame)
    /\ UNCHANGED <<pipeVars, wcVars, ebayVars>>

ForEnd ==
    /\ frame.pc = "for"
    /\ frame.i >= Len(frame.tracks)
    /\ frame' = StepFor(frame)
    /\ UNCHANGED <<pipeVars, wcVars, ebayVars>>

Unpack ==
    /\ frame.pc = "unpack"
    /\ frame' = StepUnpack(frame)
    /\ UNCHANGED <<pipeVars, wcVars, ebayVars>>

Parse ==
    /\ frame.pc = "parse"
    /\ frame' = StepParse(frame)
    /\ UNCHANGED <<pipeVars, wcVars, ebayVars>>

Mobile ==
    /\ frame.pc = "mobile"
    /\ frame' = StepMobile(frame)
    /\ UNCHANGED <<pipeVars, wcVars, ebayVars>>

Classify ==
    /\ frame.pc = "classify"
    /\ frame' = StepClassify(frame)
    /\ UNCHANGED <<pipeVars, wcVars, ebayVars>>

Return ==
    /\ frame.pc = "return"
    /\ frame' = StepReturn(frame)
    /\ UNCHANGED <<pipeVars, wcVars, ebayVars>>

Next == ForNext \/ ForEnd \/ Unpack \/ Parse \/ Mobile \/ Classify \/ Return

Spec == Init /\ [][Next]_vars

----------------------------------------------------------------------------
(* What the specification says a summary is.                               *)

\* the four half-open ranges of the 24-hour clock
SpecBucket(h) ==
    IF h \in 5..11 THEN "morning"
    ELSE IF h \in 12..16 THEN "afternoon"
    ELSE IF h \in 17..21 THEN "evening"
    ELSE "night"

Parses(r) == HourOfDay(r[2]).ok

AllParse(tracks) == \A k \in 1..Len(tracks) : Parses(tracks[k])

WellFormed(tracks) ==
    \A k \in 1..Len(tracks) :
        /\ Parses(tracks[k])
        /\ HourOfDay(tracks[k][2]).val \in 0..23
        /\ tracks[k][3] \in {0, 1}

CountBucket(tracks, b) ==
    Cardinality({k \in 1..Len(tracks) : SpecBucket(HourOfDay(tracks[k][2]).val) = b})

RECURSIVE SumFlags(_)
SumFlags(tracks) ==
    IF tracks = <<>> THEN 0 ELSE Head(tracks)[3] + SumFlags(Tail(tracks))

ItemIds(tracks) == {tracks[k][1] : k \in 1..Len(tracks)}

DistinctIds(tracks) ==
    \A j, k \in 1..Len(tracks) : j # k => tracks[j][1] # tracks[k][1]

FullSummary(tracks) ==
    <<Cardinality(ItemIds(tracks)),
      CountBucket(tracks, "morning"), CountBucket(tracks, "afternoon"),
      CountBucket(tracks, "evening"), CountBucket(tracks, "night"),
      SumFlags(tracks)>>

\* the sequences that hold the elements of tracks in some order
RECURSIVE Reorderings(_)
Reorderings(tracks) ==
    IF tracks = <<>> THEN {<<>>}
    ELSE UNION {{<<tracks[i]>> \o rest :
                    rest \in Reorderings([k \in 1..(Len(tracks) - 1) |->
                                IF k < i THEN tracks[k] ELSE tracks[k + 1]])} :
                i \in 1..Len(tracks)}

Returned == frame.pc = "returned"

ReturnedList == Returned /\ frame.ret.kind = "list"

BucketSum(v) == v[2] + v[3] + v[4] + v[5]

----------------------------------------------------------------------------
(* Claims about compute_stats_by_user.                                     *)

\* C1: a call on a non-empty group of well-formed records returns the
\* six-field summary of the whole group (distinct ids, records per bucket,
\* sum of flags); the example group yields (2, 1, 0, 0, 2, 2).
C1_WholeGroupSummary ==
    (Returned /\ Len(frame.tracks) > 0 /\ WellFormed(frame.tracks))
        => /\ frame.ret = ListValue(FullSummary(frame.tracks))
           /\ (frame.tracks = ExampleGroup
                   => frame.ret = ListValue(<<2, 1, 0, 0, 2, 2>>))

\* C2: when every timestamp of the group parses, the four bucket counters
\* of the returned summary add up to the number of records.
C2_BucketsSumToSize ==
    (ReturnedList /\ AllParse(frame.tracks))
        => BucketSum(frame.ret.val) = Len(frame.tracks)

\* C3: a call on a non-empty group ends as the call on its first record
\* alone does: when that record parses, with unique count 1, exactly one
\* bucket counter at 1 (the others 0) and the first record's flag as mobile
\* count, whatever follows the first record.
C3_FirstRecordOnly ==
    (Terminal(frame) /\ Len(frame.tracks) > 0)
        => LET first == frame.tracks[1]
               v == frame.ret.val
           IN  /\ frame.ret = compute_stats_by_user(<<first>>)
               /\ Parses(first)
                    => /\ frame.ret.kind = "list"
                       /\ Len(v) = 6
                       /\ v[1] = 1
                       /\ BucketSum(v) = 1
                       /\ \A k \in 2..5 : v[k] \in {0, 1}
                       /\ v[6] = first[3]
               /\ ~Parses(first) => frame.ret = ValueError

\* C3 witness: a returned call on three records with two distinct ids whose
\* summary counts one item and one bucket.
C3_Witness ==
    /\ ReturnedList
    /\ Len(frame.tracks) = 3
    /\ Cardinality(ItemIds(frame.tracks)) = 2
    /\ frame.ret.val[1] = 1
    /\ BucketSum(frame.ret.val) = 1

\* C4: the call on the empty sequence returns the all-zero summary.
C4_EmptyGroupZeroSummary ==
    (Terminal(frame) /\ frame.tracks = <<>>)
        => frame.ret = ListValue(<<0, 0, 0, 0, 0, 0>>)

\* C5: every permutation of the group yields the outcome the group itself
\* yields.
C5_PermutationInvariant ==
    (Terminal(frame) /\ AllParse(frame.tracks))
        => \A g \in Reorderings(frame.tracks) :
               compute_stats_by_user(g) = frame.ret

\* C6: the classification of a record whose timestamp carries hour h in
\* 0..23 adds 1 to the counter of the range h lies in (night [0,5) and
\* [22,24), morning [5,12), afternoon [12,17), evening [17,22)) and leaves
\* the other three counters as they are.
C6_OneBucketPerHour ==
    [][frame.pc = "classify"
          => \A h \in 0..23, mm \in {0, 30} :
                 frame.tracks[frame.i][2] = Timestamp(h, mm)
                     => /\ frame'.morning = frame.morning
                              + (IF SpecBucket(h) = "morning" THEN 1 ELSE 0)
                        /\ frame'.afternoon = frame.afternoon
                              + (IF SpecBucket(h) = "afternoon" THEN 1 ELSE 0)
                        /\ frame'.evening = frame.evening
                              + (IF SpecBucket(h) = "evening" THEN 1 ELSE 0)
                        /\ frame'.night = frame.night
                              + (IF SpecBucket(h) = "night" THEN 1 ELSE 0)]_vars

\* C6 witness: a record of hour 22 has been classified and counted as night.
C6_Witness ==
    /\ frame.pc = "return"
    /\ frame.tracks[frame.i][2] = Timestamp(22, 0)
    /\ frame.night = 1
    /\ frame.evening = 0

\* C7: the unique-item count is at most the number of records, and equal to
\* it exactly when the item ids of the group are pairwise distinct.
C7_UniqueCountBound ==
    ReturnedList
        => /\ frame.ret.val[1] <= Len(frame.tracks)
           /\ (frame.ret.val[1] = Len(frame.tracks)) <=> DistinctIds(frame.tracks)

\* C8: the mobile count lies in 0..(group size) and is the sum of the
\* device flags of all records of the group.
C8_MobileIsFlagSum ==
    ReturnedList
        => /\ frame.ret.val[6] \in 0..Len(frame.tracks)
           /\ frame.ret.val[6] = SumFlags(frame.tracks)

\* C9: every call on well-formed records, the empty sequence included, ends
\* by returning one list of six non-negative integers.
C9_ReturnsSixCounters ==
    (Terminal(frame) /\ WellFormed(frame.tracks))
        => /\ frame.ret.kind = "list"
           /\ Len(frame.ret.val) = 6
           /\ \A k \in 1..6 : frame.ret.val[k] \in Nat

\* C11: a visited record whose device flag is outside {0,1} makes the call
\* end with an InvalidFlag error, and no returned summary has a mobile count
\* below 0 or above the number of records visited.
C11_InvalidFlagSignalled ==
    Terminal(frame)
        => /\ (\E k \in 1..frame.i : frame.tracks[k][3] \notin {0, 1})
                => frame.ret.kind = "InvalidFlag"
           /\ frame.ret.kind = "list" => frame.ret.val[6] \in 0..frame.i

\* C14: no statement of a call changes the sequence it was given or a
\* record in it, nor anything of the notebook outside the call's locals,
\* and the call ends with the very outcome a second call on the same
\* sequence has.
C14_PureFunction ==
    /\ [][frame'.tracks = frame.tracks /\ UNCHANGED <<pipeVars, wcVars, ebayVars>>]_vars
    /\ [](Terminal(frame) => frame.ret = compute_stats_by_user(frame.tracks))

\* C14 witness: a call on three records has returned after reading a
\* record with the mobile flag set.
C14_Witness ==
    /\ ReturnedList
    /\ Len(frame.tracks) = 3
    /\ frame.tracks[1][3] = 1
    /\ frame.ret.val[6] = 1

\* C22: at every point of a call tracklist holds no id twice and only ids
\* of records visited so far; while the flags of the visited records are 0
\* or 1 the five counters are non-negative; and once the classification of
\* a record is through, morning + afternoon + evening + night is the number
\* of records visited so far (one less while the record is still being
\* worked on).
C22_LoopInvariant ==
    /\ \A j, k \in 1..Len(frame.tracklist) :
           j # k => frame.tracklist[j] # frame.tracklist[k]
    /\ \A k \in 1..Len(frame.tracklist) :
           \E j \in 1..frame.i : frame.tracks[j][1] = frame.tracklist[k]
    /\ (\A j \in 1..frame.i : frame.tracks[j][3] \in {0, 1})
           => /\ frame.mcount >= 0
              /\ frame.morning >= 0
              /\ frame.afternoon >= 0
              /\ frame.evening >= 0
              /\ frame.night >= 0
    /\ frame.pc \in {"for", "return", "returned"}
           => frame.morning + frame.afternoon + frame.evening + frame.night
                  = frame.i
    /\ frame.pc \in {"unpack", "parse", "mobile", "classify"}
           => frame.morning + frame.afternoon + frame.evening + frame.night
                  = frame.i - 1

\* C22 witness: the classification of the first of three records is
\* through: its id is the one id seen, its flag is counted and one bucket
\* holds it.
C22_Witness ==
    /\ frame.pc = "return"
    /\ Len(frame.tracks) = 3
    /\ frame.i = 1
    /\ frame.tracklist = <<frame.tracks[1][1]>>
    /\ frame.mcount = 1
    /\ frame.morning + frame.afternoon + frame.evening + frame.night = 1

\* the hours the classification is tried on directly
MaxHourTried == 120

HourRange == (0 - MaxHourTried)..MaxHourTried

\* the counters of the frame that the classification of hour h leaves
Classified(h) ==
    StepClassify([InitFrame(<<>>) EXCEPT !.pc = "classify", !.hour_of_day = h])

\* C23: the classification takes every integer hour: it raises nothing and
\* adds 1 to exactly one bucket counter, which for every negative hour and
\* every hour from 24 on is the night counter; so is a record counted whose
\* timestamp carries such an hour.  (The second part does not depend on the
\* call: it is evaluated in the states of the call on the empty group.)
C23_ClassificationTotal ==
    /\ [][frame.pc = "classify"
            => /\ frame'.pc = "return"
               /\ <<frame'.morning - frame.morning,
                    frame'.afternoon - frame.afternoon,
                    frame'.evening - frame.evening,
                    frame'.night - frame.night>>
                      \in {<<1, 0, 0, 0>>, <<0, 1, 0, 0>>, <<0, 0, 1, 0>>, <<0, 0, 0, 1>>}
               /\ (frame.hour_of_day < 0 \/ frame.hour_of_day >= 24)
                     => frame'.night = frame.night + 1]_vars
    /\ [](frame.tracks = <<>>
            => \A h \in HourRange :
                 \A c \in {Classified(h)} :
                   /\ c.pc = "return"
                   /\ c.morning + c.afternoon + c.evening + c.night = 1
                   /\ {c.morning, c.afternoon, c.evening, c.night} \subseteq {0, 1}
                   /\ (h < 0 \/ h >= 24) => c.night = 1)

\* C23 witness: a record of hour -30 or 99 has been classified and counted
\* as night.
C23_Witness ==
    /\ frame.pc = "return"
    /\ frame.hour_of_day \in {0 - 30, 99}
    /\ frame.night = 1
    /\ frame.morning + frame.afternoon + frame.evening = 0

----------------------------------------------------------------------------
(* The notebook's pipeline over tracks.csv.                                *)

\* longest input file
MaxLines == 3

Quote == "\""

\* the decimal digits of a natural number
RECURSIVE Digits(_)
Digits(n) ==
    IF n < 10 THEN <<DigitChars[n + 1]>>
    ELSE Digits(n \div 10) \o <<DigitChars[(n % 10) + 1]>>

\* a line of tracks.csv: eventId,customerId,trackId,"datetime",mobile,"zip"
Line(event, cust, trackid, stamp, mobile, zip) ==
    Digits(event) \o <<",">> \o Digits(cust) \o <<",">> \o Digits(trackid)
        \o <<",", Quote>> \o stamp \o <<Quote, ",">> \o Digits(mobile)
        \o <<",", Quote>> \o zip \o <<Quote>>

Customers == {48, 7}

\* [trackid, stamp, mobile] of the events in the file
Events == {<<1, Timestamp(3, 0), 0>>, <<2, Timestamp(9, 0), 1>>,
           <<1, BadHourStamp, 1>>}

Lines == {Line(0, c, e[1], e[2], e[3], Zip1) : c \in Customers, e \in Events}

Files == UNION {[1..k -> Lines] : k \in 1..MaxLines}

\* make_tracks_kv with line[0], the event id, taken as the key
make_tracks_kvEventKey(str) ==
    LET line == Split(str, ",")
    IN  IF Len(line) < 6
        THEN [ok |-> FALSE, kind |-> "IndexError", key |-> <<>>, val |-> <<>>]
        ELSE IF ~ParseInt(line[3]).ok \/ ~ParseInt(line[5]).ok
        THEN [ok |-> FALSE, kind |-> "ValueError", key |-> <<>>, val |-> <<>>]
        ELSE [ok |-> TRUE, kind |-> "pair", key |-> line[1],
              val |-> << <<ParseInt(line[3]).val, line[4],
                           ParseInt(line[5]).val, line[6]>> >>]

\* make_tracks_kv(str): the pair [customer id, [[trackid, dtime, mobile, zip]]]
\* of a line, or the exception that str.split, the indexing or int() raises
make_tracks_kv(str) ==
    LET line == Split(str, ",")
    IN  IF Len(line) < 6
        THEN [ok |-> FALSE, kind |-> "IndexError", key |-> <<>>, val |-> <<>>]
        ELSE IF ~ParseInt(line[3]).ok \/ ~ParseInt(line[5]).ok
        THEN [ok |-> FALSE, kind |-> "ValueError", key |-> <<>>, val |-> <<>>]
        ELSE [ok |-> TRUE, kind |-> "pair", key |-> line[2],
              val |-> << <<ParseInt(line[3]).val, line[4],
                           ParseInt(line[5]).val, line[6]>> >>]

\* an exception as the notebook sees it: mapValues hands a task the value
\* alone, so what a task raises carries no key
TaskError(kind) == [key |-> <<>>, kind |-> kind]

PipelineInit ==
    /\ frame = InitFrame(<<>>)
    /\ file \in Files
    /\ job = "colStats"
    /\ stage = "map"
    /\ partials = <<>>
    /\ values = <<>>
    /\ stats = <<>>
    /\ collected = <<>>
    /\ live_table = <<>>
    /\ agg_table = <<>>
    /\ errors = <<>>
    /\ WordCountIdle
    /\ EbayIdle

Running == job \in {"colStats", "collect"}

\* the exception of a task fails the job: its results are dropped and the
\* exception ends the cell
Fail(kind) ==
    /\ job' = "failed"
    /\ stage' = "none"
    /\ partials' = <<>>
    /\ values' = <<>>
    /\ errors' = Append(errors, TaskError(kind))

\* tracks_file.map(lambda line: make_tracks_kv(line))
MapLines ==
    /\ Running
    /\ stage = "map"
    /\ LET out == [k \in 1..Len(file) |-> make_tracks_kv(file[k])]
       IN  IF \A k \in 1..Len(out) : out[k].ok
           THEN /\ partials' = [k \in 1..Len(out) |-> <<out[k].key, out[k].val>>]
                /\ stage' = "reduce"
                /\ UNCHANGED <<job, values, errors>>
           ELSE Fail((CHOOSE k \in 1..Len(out) : ~out[k].ok).kind)
    /\ UNCHANGED <<ebayVars, wcVars, frame, file, stats, collected, live_table, agg_table>>

\* the sequence without its j-th element
Remove(q, j) == [k \in 1..(Len(q) - 1) |-> IF k < j THEN q[k] ELSE q[k + 1]]

\* a reduce function that keeps its first argument
AddListsKeepFirst(a, b) == a

\* lambda a,b: a+b on two lists
AddLists(a, b) == a \o b

\* reduceByKey(lambda a,b: a+b): two pairs of one key become one, holding
\* the concatenation of their lists; which pair is a and which is b is up
\* to the engine
Merge ==
    /\ Running
    /\ stage = "reduce"
    /\ \E i, j \in 1..Len(partials) :
        /\ i # j
        /\ partials[i][1] = partials[j][1]
        /\ partials' = Remove([partials EXCEPT ![i] =
                      <<partials[i][1], AddLists(partials[i][2], partials[j][2])>>], j)
    /\ UNCHANGED <<ebayVars, wcVars, frame, file, job, stage, values, stats, collected,
                   live_table, agg_table, errors>>

Reduced ==
    \A i, j \in 1..Len(partials) : i # j => partials[i][1] # partials[j][1]

\* the shuffle is through: one pair per key, no task of mapValues run yet
ReduceDone ==
    /\ Running
    /\ stage = "reduce"
    /\ Reduced
    /\ stage' = "mapValues"
    /\ values' = [k \in 1..Len(partials) |-> Pending]
    /\ UNCHANGED <<ebayVars, wcVars, frame, file, job, partials, stats, collected,
                   live_table, agg_table, errors>>

\* a task that reads the list of the first pair instead of its own
MapValueFirstList ==
    /\ Running
    /\ stage = "mapValues"
    /\ \E k \in 1..Len(partials) :
        /\ values[k] = Pending
        /\ LET r == compute_stats_by_user(partials[1][2])
           IN  IF r.kind = "ValueError"
               THEN Fail(r.kind)
               ELSE /\ values' = [values EXCEPT ![k] = r]
                    /\ UNCHANGED <<job, stage, partials, errors>>
    /\ UNCHANGED <<ebayVars, wcVars, frame, file, stats, collected, live_table, agg_table>>

\* mapValues(lambda a: compute_stats_by_user(a)): the task of one pair
MapValue ==
    /\ Running
    /\ stage = "mapValues"
    /\ \E k \in 1..Len(partials) :
        /\ values[k] = Pending
        /\ LET r == compute_stats_by_user(partials[k][2])
           IN  IF r.kind = "ValueError"
               THEN Fail(r.kind)
               ELSE /\ values' = [values EXCEPT ![k] = r]
                    /\ UNCHANGED <<job, stage, partials, errors>>
    /\ UNCHANGED <<ebayVars, wcVars, frame, file, stats, collected, live_table, agg_table>>

AllComputed == \A k \in 1..Len(values) : values[k] # Pending

RECURSIVE ColumnSum(_, _)
ColumnSum(rows, c) ==
    IF rows = <<>> THEN 0 ELSE Head(rows)[c] + ColumnSum(Tail(rows), c)

\* Statistics.colStats(customer_data.map(lambda x: x[1])): per column, the
\* sum and the number of rows, of which mean() is the quotient; then the
\* next cell opens live_table.csv and starts the job of collect()
ColStats ==
    /\ job = "colStats"
    /\ stage = "mapValues"
    /\ AllComputed
    /\ LET rows == [k \in 1..Len(values) |-> values[k].val]
       IN  stats' = [count |-> Len(rows),
                     sum |-> [c \in 1..6 |-> ColumnSum(rows, c)]]
    /\ job' = "collect"
    /\ stage' = "map"
    /\ partials' = <<>>
    /\ values' = <<>>
    /\ live_table' = <<>>
    /\ UNCHANGED <<ebayVars, wcVars, frame, file, collected, agg_table, errors>>

\* customer_data.take(1) in the place of collect()
CollectFirstOnly ==
    /\ job = "collect"
    /\ stage = "mapValues"
    /\ AllComputed
    /\ collected' = <<<<partials[1][1], values[1].val>>>>
    /\ job' = "write_live"
    /\ stage' = "none"
    /\ partials' = <<>>
    /\ values' = <<>>
    /\ UNCHANGED <<ebayVars, wcVars, frame, file, stats, live_table, agg_table, errors>>

\* customer_data.collect()
Collect ==
    /\ job = "collect"
    /\ stage = "mapValues"
    /\ AllComputed
    /\ collected' = [k \in 1..Len(partials) |-> <<partials[k][1], values[k].val>>]
    /\ job' = "write_live"
    /\ stage' = "none"
    /\ partials' = <<>>
    /\ values' = <<>>
    /\ UNCHANGED <<ebayVars, wcVars, frame, file, stats, live_table, agg_table, errors>>

\* a writer that puts the mobile count first and the unique count last
WriteLiveRowMobileFirst ==
    /\ job = "write_live"
    /\ Len(live_table) < Len(collected)
    /\ LET value == collected[Len(live_table) + 1][2]
       IN  live_table' = Append(live_table,
               <<value[6], value[2], value[3], value[4], value[5], value[1]>>)
    /\ UNCHANGED <<ebayVars, wcVars, frame, file, job, stage, partials, values, stats, collected,
                   agg_table, errors>>

\* for key, value in ...: fwriter.writerow([unique, morning, ..., mobile])
WriteLiveRow ==
    /\ job = "write_live"
    /\ Len(live_table) < Len(collected)
    /\ LET value == collected[Len(live_table) + 1][2]
       IN  live_table' = Append(live_table,
               <<value[1], value[2], value[3], value[4], value[5], value[6]>>)
    /\ UNCHANGED <<ebayVars, wcVars, frame, file, job, stage, partials, values, stats, collected,
                   agg_table, errors>>

\* aggregate_data.mean()[c]: the quotient sum / count, kept as the pair
Mean(c) == <<stats.sum[c], stats.count>>

\* fwriter.writerow([aggregate_data.mean()[0], ..., aggregate_data.mean()[5]])
WriteAggRow ==
    /\ job = "write_live"
    /\ Len(live_table) = Len(collected)
    /\ agg_table' = <<[c \in 1..6 |-> Mean(c)]>>
    /\ job' = "done"
    /\ UNCHANGED <<ebayVars, wcVars, frame, file, stage, partials, values, stats, collected,
                   live_table, errors>>

PipelineNext ==
    \/ MapLines
    \/ Merge
    \/ ReduceDone
    \/ MapValue
    \/ ColStats
    \/ Collect
    \/ WriteLiveRow
    \/ WriteAggRow

PipelineSpec == PipelineInit /\ [][PipelineNext]_vars

----------------------------------------------------------------------------
(* Claims about the aggregation pass.                                      *)

\* the pairs make_tracks_kv yields for the lines of the file
FilePairs == [k \in 1..Len(file) |-> make_tracks_kv(file[k])]

FileKeys == {FilePairs[k].key : k \in 1..Len(file)}

\* some record of customer key has a timestamp that does not parse
HasBadStamp(key) ==
    \E k \in 1..Len(file) :
        FilePairs[k].key = key /\ ~Parses(FilePairs[k].val[1])

PassEnded == job \in {"done", "failed"}

\* C10: when a record of some customer has an unparsable timestamp, the
\* pass still runs to its end, reports an error tagged with that customer's
\* key, and produces the summary of every customer whose records all parse.
C10_FailureIsolation ==
    (PassEnded /\ \E key \in FileKeys : HasBadStamp(key))
        => /\ job = "done"
           /\ \A key \in FileKeys :
                /\ HasBadStamp(key)
                     => \E e \in 1..Len(errors) : errors[e].key = key
                /\ ~HasBadStamp(key)
                     => \E c \in 1..Len(collected) : collected[c][1] = key

\* the records of the pairs ps that carry the key, in order
RECURSIVE RecordsIn(_, _)
RecordsIn(ps, key) ==
    IF ps = <<>> THEN <<>>
    ELSE (IF Head(ps).key = key THEN Head(ps).val ELSE <<>>)
             \o RecordsIn(Tail(ps), key)

\* how often r occurs in the list q
Occurrences(q, r) == Cardinality({k \in 1..Len(q) : q[k] = r})

SameBag(p, q) ==
    \A pv \in {p}, qv \in {q} :
        /\ Len(pv) = Len(qv)
        /\ \A k \in 1..Len(pv) : Occurrences(pv, pv[k]) = Occurrences(qv, pv[k])

\* the lists of the pairs of customer key, one after the other
RECURSIVE PartialRecords(_, _)
PartialRecords(ps, key) ==
    IF ps = <<>> THEN <<>>
    ELSE (IF Head(ps)[1] = key THEN Head(ps)[2] ELSE <<>>)
             \o PartialRecords(Tail(ps), key)

PartialKeys == {partials[k][1] : k \in 1..Len(partials)}

\* C12: from the map stage on, whatever pairs reduceByKey has merged so far
\* and in whatever order, the pairs of each customer hold together exactly
\* the multiset of records parsed from that customer's lines, and no other
\* key occurs; once the shuffle is through there is one pair per customer.
C12_GroupingComplete ==
    (Running /\ stage \in {"reduce", "mapValues"})
        => \A fp \in {FilePairs} :
             LET keys == {fp[k].key : k \in 1..Len(fp)}
             IN  /\ PartialKeys = keys
                 /\ \A key \in keys :
                        SameBag(PartialRecords(partials, key), RecordsIn(fp, key))
                 /\ stage = "mapValues" => Reduced

\* C12 witness: the shuffle is through, one customer's list was merged from
\* two lines and another customer has a list of its own.
C12_Witness ==
    /\ Running
    /\ stage = "mapValues"
    /\ Len(partials) = 2
    /\ \E k \in 1..2 : Len(partials[k][2]) = 2

\* C19: the reduce function of tracks_rdd is associative and commutative on
\* the lists it is applied to.
C19_ReduceAssocCommutative ==
    \A i, j, l \in 1..Len(partials) :
        LET a == partials[i][2]
            b == partials[j][2]
            c == partials[l][2]
        IN  /\ AddLists(AddLists(a, b), c) = AddLists(a, AddLists(b, c))
            /\ AddLists(a, b) = AddLists(b, a)

\* the outcomes compute_stats_by_user has on the orderings of the list
Outcomes(list) ==
    UNION {{compute_stats_by_user(g) : g \in Reorderings(recs)} : recs \in {list}}

\* C13: whichever tasks of mapValues have run so far and in whatever order,
\* the value held for a customer is the outcome of compute_stats_by_user on
\* that customer's own list, one of the outcomes its own lines allow; the
\* same holds of the collected summaries.
C13_IndependentInvocations ==
    ((Running /\ stage = "mapValues") \/ collected # <<>>)
    => \A fp \in {FilePairs} :
        /\ (Running /\ stage = "mapValues")
              => \A k \in 1..Len(partials) :
                     values[k] # Pending
                         => /\ values[k] = compute_stats_by_user(partials[k][2])
                            /\ values[k] \in Outcomes(RecordsIn(fp, partials[k][1]))
        /\ \A c \in 1..Len(collected) :
               ListValue(collected[c][2]) \in Outcomes(RecordsIn(fp, collected[c][1]))

\* C13 witness: the tasks of two customers have both run and their
\* summaries differ.
C13_Witness ==
    /\ Running
    /\ stage = "mapValues"
    /\ Len(partials) = 2
    /\ AllComputed
    /\ values[1] # values[2]

CollectedKeys == {collected[c][1] : c \in 1..Len(collected)}

Written == job \in {"write_live", "done"}

\* C15: in each evaluation customer_data has one value per pair of
\* tracks_rdd, hence one per customer of the file, and what collect()
\* returned has exactly one summary per customer of the file; a value, once
\* computed, stays as it is while the other tasks run, and the collected
\* summaries stay as they are while the two tables are written.
C15_OneSummaryPerKey ==
    /\ []((Running /\ stage = "mapValues")
            => /\ Reduced
               /\ PartialKeys = FileKeys
               /\ Len(values) = Len(partials))
    /\ [](Written
            => /\ CollectedKeys = FileKeys
               /\ Len(collected) = Cardinality(FileKeys)
               /\ \A c \in 1..Len(collected) : Len(collected[c][2]) = 6)
    /\ [][/\ Written => collected' = collected
          /\ (stage = "mapValues" /\ stage' = "mapValues")
                => \A k \in 1..Len(values) :
                       values[k] # Pending => values'[k] = values[k]]_vars

\* C15 witness: both tables are written and two customers were collected.
C15_Witness ==
    /\ job = "done"
    /\ Len(collected) = 2
    /\ Len(live_table) = 2
    /\ Len(agg_table) = 1

\* C16: the rows of live_table are, one per collected customer and in the
\* order collected, the six fields (unique, morning, afternoon, evening,
\* night, mobile) of that customer's summary without the key; when the
\* writers are through there is exactly one row per customer of the file.
C16_LiveTableRows ==
    /\ Len(live_table) <= Len(collected)
    /\ live_table # <<>>
       => \A fp \in {FilePairs} :
         \A k \in 1..Len(live_table) :
           /\ Len(live_table[k]) = 6
           /\ live_table[k] = collected[k][2]
           /\ ListValue(live_table[k]) \in Outcomes(RecordsIn(fp, collected[k][1]))
    /\ job = "done"
          => /\ Len(live_table) = Len(collected)
             /\ Len(live_table) = Cardinality(FileKeys)

\* C16 witness: two rows are written, for two customers whose summaries
\* differ, the first with unique count 1 and mobile count 0.
C16_Witness ==
    /\ job = "done"
    /\ Len(live_table) = 2
    /\ live_table[1] # live_table[2]
    /\ live_table[1][1] = 1
    /\ live_table[1][6] = 0

\* C17: the one row of agg_table holds, field by field, the mean over all
\* customers of the summaries written to live_table (means compared as
\* quotients: sum / count = column sum of live_table / number of rows).
C17_AggRowIsMeanOfLiveRows ==
    job = "done"
        => /\ Len(agg_table) = 1
           /\ Len(agg_table[1]) = 6
           /\ \A c \in 1..6 :
                  agg_table[1][c][1] * Len(live_table)
                      = ColumnSum(live_table, c) * agg_table[1][c][2]

\* the fields joined by commas
RECURSIVE Join(_)
Join(fields) ==
    IF Len(fields) = 1 THEN fields[1]
    ELSE fields[1] \o <<",">> \o Join(Tail(fields))

\* the line with another event id and another location code
OtherEventAndZip(str) ==
    LET f == Split(str, ",")
    IN  Join(<<Digits(12), f[2], f[3], f[4], f[5], <<Quote>> \o Zip2 \o <<Quote>>>>)

\* files that differ from f in event ids and location codes only: in one
\* line, or in every line
Variants(f) ==
    {[k \in 1..Len(f) |-> IF k \in D THEN OtherEventAndZip(f[k]) ELSE f[k]] :
        D \in {{k} : k \in 1..Len(f)} \cup {1..Len(f)}}

\* the pairs make_tracks_kv makes of the lines of the file f
PairsOf(f) == [k \in 1..Len(f) |-> make_tracks_kv(f[k])]

\* C18: of the line eventId,customerId,trackId,"datetime",mobile,"zip"
\* make_tracks_kv takes the customer id as key and [trackId, datetime,
\* mobile, zip] as record; a file that differs in event ids and location
\* codes only has the same customers, and for each of them the same
\* summaries under the merge orders (stated of the file when the pass
\* starts), the ones this run collects being among those of the file with
\* every line changed.
C18_EventIdAndZipIgnored ==
    /\ (job = "colStats" /\ stage = "map")
          => /\ \A k \in 1..Len(file) :
                  \A c \in Customers, e \in Events :
                    file[k] = Line(0, c, e[1], e[2], e[3], Zip1)
                      => \A kv \in {make_tracks_kv(file[k])} :
                           /\ kv.ok
                           /\ kv.key = Digits(c)
                           /\ kv.val
                                = << <<e[1], <<Quote>> \o e[2] \o <<Quote>>, e[3],
                                       <<Quote>> \o Zip1 \o <<Quote>>>> >>
             /\ \A fp \in {FilePairs} :
                  \A alt \in Variants(file) :
                    \A ap \in {PairsOf(alt)} :
                      /\ {ap[k].key : k \in 1..Len(ap)} = FileKeys
                      /\ \A key \in FileKeys :
                             Outcomes(RecordsIn(ap, key)) = Outcomes(RecordsIn(fp, key))
    /\ job = "done"
          => \A ap \in {PairsOf([k \in 1..Len(file) |-> OtherEventAndZip(file[k])])} :
                 \A c \in 1..Len(collected) :
                     ListValue(collected[c][2])
                         \in Outcomes(RecordsIn(ap, collected[c][1]))

\* C18 witness: the summaries of two customers of a three-line file are
\* written; the file has a variant with other event ids and zip codes in
\* every line.
C18_Witness ==
    /\ job = "done"
    /\ Len(file) = 3
    /\ Len(collected) = 2
    /\ \E alt \in Variants(file) : \A k \in 1..3 : alt[k] # file[k]

\* C21: for a fixed file, the summary the pipeline ends with for a key is
\* the same under every partitioning of the lines and every order in which
\* the partial lists are merged: the orderings of the key's records have one
\* outcome only, the summary collected.
C21_EndToEndDeterminism ==
    job = "done"
        => \A fp \in {FilePairs} :
               \A c \in 1..Len(collected) :
                   Outcomes(RecordsIn(fp, collected[c][1]))
                       = {ListValue(collected[c][2])}

-----------------------------------------------------------------------------
(* The word-count cell of 1_examples.ipynb.                                *)

MaxTextLines == 2

MaxRuns == 2

\* lines of raw/example.txt: single and repeated words, a double blank,
\* an empty line
TextLines == {<<"a", " ", "b">>, <<"b", " ", "a", " ", "a">>,
              <<"a", " ", " ", "b">>, <<>>, <<"a">>}

TextFiles == UNION {[1..k -> TextLines] : k \in 0..MaxTextLines}

WordCountInit ==
    /\ frame = InitFrame(<<>>)
    /\ PipelineIdle
    /\ text_file \in TextFiles
    /\ raw = {"example.txt"}
    /\ cell = "listdir"
    /\ counts = <<>>
    /\ word_count = <<>>
    /\ runs = 1
    /\ EbayIdle

\* if "word_count" in os.listdir("./raw"): pass
Pass ==
    /\ cell = "listdir"
    /\ "word_count" \in raw
    /\ cell' = "end"
    /\ UNCHANGED <<ebayVars, frame, pipeVars, text_file, raw, counts, word_count, runs>>

\* saveAsTextFile called whatever os.listdir returned
SaveStartUnguarded ==
    /\ cell = "listdir"
    /\ cell' = "flatMap"
    /\ UNCHANGED <<ebayVars, frame, pipeVars, text_file, raw, counts, word_count, runs>>

\* else: counts.saveAsTextFile("raw/word_count") starts the job that
\* evaluates counts
SaveStart ==
    /\ cell = "listdir"
    /\ "word_count" \notin raw
    /\ cell' = "flatMap"
    /\ UNCHANGED <<ebayVars, frame, pipeVars, text_file, raw, counts, word_count, runs>>

\* flatMap(lambda line: line.split(" ")): the words of the lines, in order
RECURSIVE FlatMapSplit(_)
FlatMapSplit(lines) ==
    IF lines = <<>> THEN <<>>
    ELSE Split(Head(lines), " ") \o FlatMapSplit(Tail(lines))

\* text_file.flatMap(...).map(lambda word: (word,1))
FlatMapWords ==
    /\ cell = "flatMap"
    /\ LET words == FlatMapSplit(text_file)
       IN  counts' = [k \in 1..Len(words) |-> <<words[k], 1>>]
    /\ cell' = "reduce"
    /\ UNCHANGED <<ebayVars, frame, pipeVars, text_file, raw, word_count, runs>>

\* a reduce function that counts its second argument as one
AddCountsOffByOne(a, b) == a + 1

\* lambda a, b: a+b on two counts
AddCounts(a, b) == a + b

\* reduceByKey(lambda a, b: a+b): two pairs of one word become one, holding
\* the sum of their counts; which pairs meet, and which is a, is up to the
\* engine
ReduceCounts ==
    /\ cell = "reduce"
    /\ \E i, j \in 1..Len(counts) :
        /\ i # j
        /\ counts[i][1] = counts[j][1]
        /\ counts' = Remove([counts EXCEPT ![i] =
                      <<counts[i][1], AddCounts(counts[i][2], counts[j][2])>>], j)
    /\ UNCHANGED <<ebayVars, frame, pipeVars, text_file, raw, cell, word_count, runs>>

CountsReduced ==
    \A i, j \in 1..Len(counts) : i # j => counts[i][1] # counts[j][1]

\* saveAsTextFile: the reduced pairs are written to raw/word_count
SaveAsTextFile ==
    /\ cell = "reduce"
    /\ CountsReduced
    /\ word_count' = counts
    /\ raw' = raw \cup {"word_count"}
    /\ cell' = "end"
    /\ UNCHANGED <<ebayVars, frame, pipeVars, text_file, counts, runs>>

\* the cell is run once more
RunAgain ==
    /\ cell = "end"
    /\ runs < MaxRuns
    /\ runs' = runs + 1
    /\ cell' = "listdir"
    /\ counts' = <<>>
    /\ UNCHANGED <<ebayVars, frame, pipeVars, text_file, raw, word_count>>

WordCountNext ==
    \/ Pass
    \/ SaveStart
    \/ FlatMapWords
    \/ ReduceCounts
    \/ SaveAsTextFile
    \/ RunAgain

WordCountSpec == WordCountInit /\ [][WordCountNext]_vars

-----------------------------------------------------------------------------
(* Word count against the text.                                            *)

\* word stands in line from position a on, between blanks or line ends
IsTokenAt(line, a, word) ==
    LET b == a + Len(word) - 1
    IN  /\ b <= Len(line)
        /\ a = 1 \/ line[a - 1] = " "
        /\ b = Len(line) \/ line[b + 1] = " "
        /\ \A k \in 1..Len(word) : word[k] = line[a + k - 1] /\ word[k] # " "

\* how often word stands in the text as a token
TokenCount(word) ==
    Cardinality({ka \in UNION {{<<k, a>> : a \in 1..(Len(text_file[k]) + 1)} :
                                k \in 1..Len(text_file)} :
                    IsTokenAt(text_file[ka[1]], ka[2], word)})

\* the strings that stand in one line between two positions
Pieces ==
    UNION {{SubSeq(text_file[k], a, b) :
                a \in 1..(Len(text_file[k]) + 1), b \in 0..Len(text_file[k])} :
           k \in 1..Len(text_file)}

TextTokens == {word \in Pieces : TokenCount(word) > 0}

\* a line holds one token more than it holds blanks
RECURSIVE TotalTokens(_)
TotalTokens(lines) ==
    IF lines = <<>> THEN 0
    ELSE Cardinality({k \in 1..Len(Head(lines)) : Head(lines)[k] = " "}) + 1
            + TotalTokens(Tail(lines))

\* the sum of the counts the pairs of word hold
RECURSIVE CountOf(_, _)
CountOf(pairs, word) ==
    IF pairs = <<>> THEN 0
    ELSE (IF Head(pairs)[1] = word THEN Head(pairs)[2] ELSE 0)
            + CountOf(Tail(pairs), word)

RECURSIVE SumOfCounts(_)
SumOfCounts(pairs) ==
    IF pairs = <<>> THEN 0 ELSE Head(pairs)[2] + SumOfCounts(Tail(pairs))

\* pairs holds one pair per token of the text, with the count of the token
IsWordCount(pairs) ==
    /\ {pairs[k][1] : k \in 1..Len(pairs)} = TextTokens
    /\ Len(pairs) = Cardinality(TextTokens)
    /\ \A k \in 1..Len(pairs) : pairs[k][2] = TokenCount(pairs[k][1])
    /\ SumOfCounts(pairs) = TotalTokens(text_file)

\* C20: whatever pairs reduceByKey has merged so far, and in whatever
\* order, the counts held for a word add up to the number of times the word
\* stands in the text as a space-separated token; once no two pairs share
\* a word, counts holds exactly one pair per distinct token, its value the
\* number of occurrences of the token over all lines, and the values sum to
\* the total number of tokens; that is what is saved.
C20_WordCount ==
    /\ cell = "reduce"
          => /\ {counts[k][1] : k \in 1..Len(counts)} = TextTokens
             /\ \A word \in TextTokens : CountOf(counts, word) = TokenCount(word)
             /\ CountsReduced => IsWordCount(counts)
    /\ "word_count" \in raw => IsWordCount(word_count)

\* C20 witness: a text of two lines has been counted and saved, a word
\* stands in it three times or more and a double blank gave the empty word
C20_Witness ==
    /\ cell = "end"
    /\ "word_count" \in raw
    /\ Len(text_file) = 2
    /\ \E k \in 1..Len(word_count) : word_count[k][2] >= 3
    /\ \E k \in 1..Len(word_count) : word_count[k] = <<<<>>, 1>>

\* C24: over the successive runs of the cell, saveAsTextFile is invoked only
\* in a run whose os.listdir shows no word_count; a run that finds the entry
\* goes to its end and leaves raw, the output and counts as they are;
\* raw/word_count is written only by the job of such an invocation, and once
\* it is there it stays and is not written again: it is saved at most once.
C24_SaveGuard ==
    /\ [][(cell = "listdir" /\ cell' = "flatMap") => "word_count" \notin raw]_vars
    /\ [][(cell = "listdir" /\ "word_count" \in raw)
              => /\ cell' = "end"
                 /\ UNCHANGED <<raw, word_count, counts>>]_vars
    /\ [][(raw' # raw \/ word_count' # word_count)
              => /\ cell = "reduce"
                 /\ "word_count" \notin raw
                 /\ raw' = raw \cup {"word_count"}]_vars
    /\ [][("word_count" \in raw)
              => /\ "word_count" \in raw'
                 /\ word_count' = word_count]_vars
    /\ []((cell \in {"flatMap", "reduce"}) => "word_count" \notin raw)

\* C24 witness: the second run of the cell found the output of the first
\* and has ended without saving.
C24_Witness ==
    /\ runs = 2
    /\ cell = "end"
    /\ counts = <<>>
    /\ "word_count" \in raw
    /\ Len(word_count) >= 2

-----------------------------------------------------------------------------
(* The eBay notebook (2_ebay_dataset.ipynb): bids per auction, asked of    *)
(* the DataFrame and asked in SQL.                                         *)

MaxBids == 3

FloatValue(num, den) == [kind |-> "float", val |-> <<num, den>>]

RECURSIVE PowerOfTen(_)
PowerOfTen(n) == IF n = 0 THEN 1 ELSE 10 * PowerOfTen(n - 1)

\* float(str) on decimal notation: blanks around it aside, an optional sign,
\* digits with at most one point and a digit on one side of it at least;
\* the value is kept as the pair numerator, denominator.  Exponents, inf
\* and nan are not among the inputs.
ParseFloat(str) ==
    LET s == Strip(str)
        signed == Len(s) > 0 /\ s[1] \in {"-", "+"}
        body == IF signed THEN SubSeq(s, 2, Len(s)) ELSE s
        parts == Split(body, ".")
        whole == parts[1]
        frac == IF Len(parts) = 2 THEN parts[2] ELSE <<>>
        digits == whole \o frac
    IN  IF Len(parts) <= 2 /\ AllDigits(digits)
        THEN [ok |-> TRUE,
              val |-> FloatValue(IF signed /\ s[1] = "-" THEN 0 - DigitsVal(digits)
                                 ELSE DigitsVal(digits),
                                 PowerOfTen(Len(frac)))]
        ELSE [ok |-> FALSE, val |-> NoneValue]

\* a line of ebay.csv:
\* auctionid,bid,bidtime,bidder,bidderrate,openbid,price,item,daystolive
EbayLine(auctionid, bid, item) ==
    auctionid \o <<",">> \o bid
        \o <<",", "2", ".", "9", ",", "j", "k", ",", "0", ",", "9", "5", ",",
             "1", "1", "7", ".", "5", ",">>
        \o item \o <<",", "3">>

Xbox == <<"x", "b", "o", "x">>
Palm == <<"p", "a", "l", "m">>

\* bids of two auctions and two items, one auction id under two items, and
\* a line whose bid is empty
EbayLines ==
    {EbayLine(<<"1">>, <<"9", "5">>, Xbox),
     EbayLine(<<"1">>, <<"2", ".", "5">>, Xbox),
     EbayLine(<<"1">>, <<"9", "5">>, Palm),
     EbayLine(<<"2">>, <<"9", "5">>, Xbox),
     EbayLine(<<"1">>, <<>>, Xbox)}

EbayFiles == UNION {[1..k -> EbayLines] : k \in 0..MaxBids}

\* line.split(",") and Row(auctionid=p[0], bid=float(p[1]), ...): the Row of
\* a line, or the exception the indexing, float() or int() raises
MakeRow(line) ==
    LET p == Split(line, ",")
    IN  IF Len(p) < 9 THEN [ok |-> FALSE, kind |-> "IndexError"]
        ELSE LET bid == ParseFloat(p[2])
                 bidtime == ParseFloat(p[3])
                 bidderrate == ParseInt(p[5])
                 openbid == ParseFloat(p[6])
                 price == ParseFloat(p[7])
                 daystolive == ParseInt(p[9])
             IN  IF /\ bid.ok /\ bidtime.ok /\ bidderrate.ok
                    /\ openbid.ok /\ price.ok /\ daystolive.ok
                 THEN [ok |-> TRUE, kind |-> "Row",
                       row |-> [auctionid |-> p[1], bid |-> bid.val,
                                bidtime |-> bidtime.val, bidder |-> p[4],
                                bidderrate |-> bidderrate.val,
                                openbid |-> openbid.val, price |-> price.val,
                                item |-> p[8], daystolive |-> daystolive.val]]
                 ELSE [ok |-> FALSE, kind |-> "ValueError"]

EbayInit ==
    /\ frame = InitFrame(<<>>)
    /\ PipelineIdle
    /\ WordCountIdle
    /\ ebay_text \in EbayFiles
    /\ ebay_df = <<>>
    /\ ebay_cell = "createDataFrame"
    /\ done = {}
    /\ buffer = {}
    /\ grouped = {}
    /\ results = {}

\* ebay_df = spark.createDataFrame(ebay_rdd, ebay_schema): the rows of the
\* lines; the exception of a line ends the notebook at the first query
CreateDataFrame ==
    /\ ebay_cell = "createDataFrame"
    /\ LET rows == [k \in 1..Len(ebay_text) |-> MakeRow(ebay_text[k])]
       IN  IF \A k \in 1..Len(rows) : rows[k].ok
           THEN /\ ebay_df' = [k \in 1..Len(rows) |-> rows[k].row]
                /\ ebay_cell' = "groupBy"
           ELSE /\ ebay_cell' = "failed"
                /\ UNCHANGED ebay_df
    /\ UNCHANGED <<frame, pipeVars, wcVars, ebay_text, done, buffer, grouped, results>>

\* the aggregation buffer with inc added to the count of the group key
AddToBuffer(buf, key, inc) ==
    IF \E t \in buf : <<t[1], t[2]>> = key
    THEN {IF <<t[1], t[2]>> = key THEN <<t[1], t[2], t[3] + inc>> ELSE t : t \in buf}
    ELSE buf \cup {<<key[1], key[2], inc>>}

\* grouping by the auction id alone
GroupKeyAuctionOnly(row) == <<row.auctionid, <<>>>>

\* groupBy('auctionid', 'item')
GroupKey(row) == <<row.auctionid, row.item>>

\* .count() of the grouped data: every row of the group counts
CountRow(row) == 1

\* ebay_df.groupBy('auctionid', 'item').count(): one more row, whichever
\* the engine takes next, is added to its group
GroupByCountRow ==
    /\ ebay_cell = "groupBy"
    /\ \E k \in (1..Len(ebay_df)) \ done :
        /\ buffer' = AddToBuffer(buffer, GroupKey(ebay_df[k]), CountRow(ebay_df[k]))
        /\ done' = done \cup {k}
    /\ UNCHANGED <<frame, pipeVars, wcVars, ebay_text, ebay_df, ebay_cell,
                   grouped, results>>

\* .show(): the query is through
GroupByCountShow ==
    /\ ebay_cell = "groupBy"
    /\ done = 1..Len(ebay_df)
    /\ grouped' = buffer
    /\ buffer' = {}
    /\ done' = {}
    /\ ebay_cell' = "sql"
    /\ UNCHANGED <<frame, pipeVars, wcVars, ebay_text, ebay_df, results>>

\* GROUP BY auctionid, item
SqlGroupKey(row) == <<row.auctionid, row.item>>

\* count(bid): a row counts unless its bid is NULL
CountBid(row) == IF row.bid = NoneValue THEN 0 ELSE 1

\* SELECT auctionid, item, count(bid) FROM ebay_table GROUP BY auctionid,
\* item: one more row is added to its group
SqlCountRow ==
    /\ ebay_cell = "sql"
    /\ \E k \in (1..Len(ebay_df)) \ done :
        /\ buffer' = AddToBuffer(buffer, SqlGroupKey(ebay_df[k]), CountBid(ebay_df[k]))
        /\ done' = done \cup {k}
    /\ UNCHANGED <<frame, pipeVars, wcVars, ebay_text, ebay_df, ebay_cell,
                   grouped, results>>

\* results.show()
SqlShow ==
    /\ ebay_cell = "sql"
    /\ done = 1..Len(ebay_df)
    /\ results' = buffer
    /\ buffer' = {}
    /\ done' = {}
    /\ ebay_cell' = "end"
    /\ UNCHANGED <<frame, pipeVars, wcVars, ebay_text, ebay_df, grouped>>

EbayNext ==
    \/ CreateDataFrame
    \/ GroupByCountRow
    \/ GroupByCountShow
    \/ SqlCountRow
    \/ SqlShow

EbaySpec == EbayInit /\ [][EbayNext]_vars

-----------------------------------------------------------------------------
(* The two counts of bids per auction.                                     *)

\* the (auctionid, item) pairs of the rows
AuctionItems == {<<ebay_df[k].auctionid, ebay_df[k].item>> : k \in 1..Len(ebay_df)}

BidsOf(pair) ==
    Cardinality({k \in 1..Len(ebay_df) :
                    <<ebay_df[k].auctionid, ebay_df[k].item>> = pair})

RECURSIVE SumOfThird(_)
SumOfThird(rows) ==
    IF rows = {} THEN 0
    ELSE LET t == CHOOSE t \in rows : TRUE
         IN  t[3] + SumOfThird(rows \ {t})

\* rows holds one row per (auctionid, item) pair with the number of its bids
IsBidCount(rows) ==
    /\ {<<t[1], t[2]>> : t \in rows} = AuctionItems
    /\ Cardinality(rows) = Cardinality(AuctionItems)
    /\ \A t \in rows : t[3] = BidsOf(<<t[1], t[2]>>)
    /\ SumOfThird(rows) = Len(ebay_df)

\* C25: every row of a DataFrame made under ebay_schema holds a bid; the
\* result of groupBy('auctionid', 'item').count() and the result of the SQL
\* query with count(bid) are the same set of (auctionid, item, count) rows,
\* one per distinct (auctionid, item) pair, the counts summing to the
\* number of rows, in whatever order the engine aggregates the rows.
C25_CountsAgree ==
    /\ \A k \in 1..Len(ebay_df) : ebay_df[k].bid.kind = "float"
    /\ ebay_cell \in {"sql", "end"} => IsBidCount(grouped)
    /\ ebay_cell = "end" => /\ IsBidCount(results)
                            /\ results = grouped

\* C25 witness: both queries are through on three bids, two of them of one
\* auction and item, and an auction id stands under two items.
C25_Witness ==
    /\ ebay_cell = "end"
    /\ Len(ebay_df) = 3
    /\ \E t \in results : t[3] = 2
    /\ \E t, u \in results : t[1] = u[1] /\ t[2] # u[2]

====
